---- MODULE Spec2Model ----
(***************************************************************************)
(* Token metadata resolution engine of tokeninfo-api: chain and address    *)
(* normalisation, the three source adapters (DefiLlama bulk call, on-chain *)
(* ERC-20 read, CoinGecko symbol search) behind one shared LRU/TTL cache,  *)
(* and handleBatch, which merges them per address.                        *)
(*                                                                         *)
(* JavaScript strings are sequences of one-character strings, so that      *)
(* toLowerCase, toUpperCase, replace and template concatenation are        *)
(* computed.  null/undefined is the value Null, a truthy non-string value  *)
(* (a number, an object) is NaS.                                           *)
(***************************************************************************)
EXTENDS Integers, Sequences, FiniteSets, TLC

(* ------------------------------ values -------------------------------- *)
Null == <<"null">>
NaS == <<"number">>

Lowers == <<"a","b","c","d","e","f","g","h","i","j","k","l","m",
            "n","o","p","q","r","s","t","u","v","w","x","y","z">>
Uppers == <<"A","B","C","D","E","F","G","H","I","J","K","L","M",
            "N","O","P","Q","R","S","T","U","V","W","X","Y","Z">>
Digits == {"0","1","2","3","4","5","6","7","8","9"}
Whitespace == {" "}

Range(s) == {s[i] : i \in DOMAIN s}

IsString(v) == v # Null /\ v # NaS

\* JavaScript truthiness: null, undefined and "" are falsy
Truthy(v) == v # Null /\ v # <<>>

\* a || b
Or(a, b) == IF Truthy(a) THEN a ELSE b

LowerChar(c) ==
  IF \E i \in DOMAIN Uppers : Uppers[i] = c
  THEN Lowers[CHOOSE i \in DOMAIN Uppers : Uppers[i] = c]
  ELSE c

UpperChar(c) ==
  IF \E i \in DOMAIN Lowers : Lowers[i] = c
  THEN Uppers[CHOOSE i \in DOMAIN Lowers : Lowers[i] = c]
  ELSE c

toLowerCase(s) == [i \in DOMAIN s |-> LowerChar(s[i])]
toUpperCase(s) == [i \in DOMAIN s |-> UpperChar(s[i])]

RECURSIVE DropWs(_)
DropWs(s) ==
  IF s # <<>> /\ Head(s) \in Whitespace THEN DropWs(Tail(s)) ELSE s

\* s.replace(/\s+/g, "-")
RECURSIVE ReplaceWs(_)
ReplaceWs(s) ==
  IF s = <<>> THEN <<>>
  ELSE IF Head(s) \in Whitespace THEN <<"-">> \o ReplaceWs(DropWs(Tail(s)))
  ELSE <<Head(s)>> \o ReplaceWs(Tail(s))

\* list.join(sep)
RECURSIVE Join(_, _)
Join(list, sep) ==
  IF list = <<>> THEN <<>>
  ELSE IF Len(list) = 1 THEN list[1]
  ELSE list[1] \o sep \o Join(Tail(list), sep)

(* --------------------------- chain mapping ---------------------------- *)
ethereum == <<"e","t","h","e","r","e","u","m">>
polygon == <<"p","o","l","y","g","o","n">>
bsc == <<"b","s","c">>
arbitrum == <<"a","r","b","i","t","r","u","m">>
optimism == <<"o","p","t","i","m","i","s","m">>
avalanche == <<"a","v","a","l","a","n","c","h","e">>
base == <<"b","a","s","e">>
fantom == <<"f","a","n","t","o","m">>

CHAIN_MAP ==
  { << <<"1">>, ethereum >>, << ethereum, ethereum >>,
    << <<"1","3","7">>, polygon >>, << polygon, polygon >>,
    << <<"5","6">>, bsc >>, << bsc, bsc >>,
    << <<"4","2","1","6","1">>, arbitrum >>, << arbitrum, arbitrum >>,
    << <<"1","0">>, optimism >>, << optimism, optimism >>,
    << <<"4","3","1","1","4">>, avalanche >>, << <<"a","v","a","x">>, avalanche >>,
    << <<"8","4","5","3">>, base >>, << base, base >>,
    << <<"2","5","0">>, fantom >>, << fantom, fantom >> }

\* CHAIN_MAP is a plain object: a key that names a property inherited from
\* Object.prototype reads that property, a truthy non-string value
InheritedKeys ==
  { <<"c","o","n","s","t","r","u","c","t","o","r">>,
    <<"_","_","p","r","o","t","o","_","_">> }

resolveChainSlug(chainInput) ==
  IF ~Truthy(chainInput) THEN ethereum
  ELSE LET key == toLowerCase(chainInput)
       IN IF \E e \in CHAIN_MAP : e[1] = key
          THEN (CHOOSE e \in CHAIN_MAP : e[1] = key)[2]
          ELSE IF key \in InheritedKeys THEN NaS
          ELSE key

(* ------------------------- address normalisation ---------------------- *)
\* number of hex digits of an address (40 in ethers, scaled)
AddrLen == 2
HexChars == Digits \cup {"a","b","c","d","e","f","A","B","C","D","E","F"}
Prefix0x == <<"0","x">>

HasPrefix(s) == Len(s) >= 2 /\ SubSeq(s, 1, 2) = Prefix0x

\* /^(0x)?[0-9a-fA-F]{40}$/
IsHexAddress(s) ==
  LET body == IF HasPrefix(s) THEN SubSeq(s, 3, Len(s)) ELSE s
  IN Len(body) = AddrLen /\ Range(body) \subseteq HexChars

\* /([A-F].*[a-f])|([a-f].*[A-F])/
MixedCase(s) ==
  /\ \E i \in DOMAIN s : s[i] \in {"A","B","C","D","E","F"}
  /\ \E i \in DOMAIN s : s[i] \in {"a","b","c","d","e","f"}

\* EIP-55 casing of the hex digits; the digest that selects the upper-case
\* positions is replaced by a fixed selection (odd positions)
getChecksumAddress(s) ==
  LET body == SubSeq(s, 3, Len(s))
  IN Prefix0x \o [i \in DOMAIN body |->
                    IF i % 2 = 1 THEN UpperChar(LowerChar(body[i]))
                    ELSE LowerChar(body[i])]

\* ethers.getAddress: [ok |-> FALSE] stands for the thrown error
getAddress(address) ==
  IF IsHexAddress(address)
  THEN LET a == IF HasPrefix(address) THEN address ELSE Prefix0x \o address
           result == getChecksumAddress(a)
       IN IF MixedCase(a) /\ result # a
          THEN [ok |-> FALSE, val |-> Null]
          ELSE [ok |-> TRUE, val |-> result]
  ELSE [ok |-> FALSE, val |-> Null]

normalizeAddress(addr) ==
  IF getAddress(addr).ok THEN getAddress(addr).val ELSE toLowerCase(addr)

(* ------------------------------ formatting ---------------------------- *)
\* formatTokenOutput with the id of a record without name and symbol taken
\* from the checksummed address
formatTokenOutputChecksumId(rawName, rawSymbol, imageUrl, contractAddress) ==
  IF Truthy(rawSymbol) /\ ~IsString(rawSymbol) THEN [ok |-> FALSE, val |-> Null]
  ELSE
    LET symbol == IF Truthy(rawSymbol) THEN toLowerCase(rawSymbol) ELSE Null
        name == Or(rawName, IF Truthy(symbol) THEN toUpperCase(symbol) ELSE Null)
    IN IF Truthy(name) /\ ~IsString(name) THEN [ok |-> FALSE, val |-> Null]
       ELSE [ok |-> TRUE,
             val |-> [id |-> IF Truthy(name)
                             THEN ReplaceWs(toLowerCase(name))
                             ELSE Or(symbol, normalizeAddress(contractAddress)),
                      symbol |-> symbol,
                      name |-> name,
                      image |-> Or(imageUrl, Null),
                      contractAddress |-> normalizeAddress(contractAddress)]]

\* formatTokenOutput with the id built from the name as it is, not lower-cased
formatTokenOutputRawId(rawName, rawSymbol, imageUrl, contractAddress) ==
  IF Truthy(rawSymbol) /\ ~IsString(rawSymbol) THEN [ok |-> FALSE, val |-> Null]
  ELSE
    LET symbol == IF Truthy(rawSymbol) THEN toLowerCase(rawSymbol) ELSE Null
        name == Or(rawName, IF Truthy(symbol) THEN toUpperCase(symbol) ELSE Null)
    IN IF Truthy(name) /\ ~IsString(name) THEN [ok |-> FALSE, val |-> Null]
       ELSE [ok |-> TRUE,
             val |-> [id |-> IF Truthy(name)
                             THEN ReplaceWs(name)
                             ELSE toLowerCase(Or(symbol, contractAddress)),
                      symbol |-> symbol,
                      name |-> name,
                      image |-> Or(imageUrl, Null),
                      contractAddress |-> normalizeAddress(contractAddress)]]

\* [ok |-> FALSE] stands for the TypeError of calling toLowerCase on a
\* value that is not a string
formatTokenOutput(rawName, rawSymbol, imageUrl, contractAddress) ==
  IF Truthy(rawSymbol) /\ ~IsString(rawSymbol) THEN [ok |-> FALSE, val |-> Null]
  ELSE
    LET symbol == IF Truthy(rawSymbol) THEN toLowerCase(rawSymbol) ELSE Null
        name == Or(rawName, IF Truthy(symbol) THEN toUpperCase(symbol) ELSE Null)
    IN IF Truthy(name) /\ ~IsString(name) THEN [ok |-> FALSE, val |-> Null]
       ELSE [ok |-> TRUE,
             val |-> [id |-> IF Truthy(name)
                             THEN ReplaceWs(toLowerCase(name))
                             ELSE toLowerCase(Or(symbol, contractAddress)),
                      symbol |-> symbol,
                      name |-> name,
                      image |-> Or(imageUrl, Null),
                      contractAddress |-> normalizeAddress(contractAddress)]]

(* ------------------------------- state -------------------------------- *)
\* the batches (runs of handleBatch) of a behaviour
Procs == {1, 2}

VARIABLES
  cache,       \* LRUCache: entries [key, value, start], most recently used first
  now,         \* the clock the cache reads, in units of half an hour
  pc,          \* position of each batch in handleBatch
  addresses,   \* handleBatch parameter
  chainInput,  \* handleBatch parameter
  chainSlug,   \* handleBatch local
  normalized,  \* handleBatch local
  llamaData,   \* handleBatch local
  idx,         \* position of the for loop in normalized (1-based)
  tokenInfo,   \* loop local
  name,        \* loop local
  symbol,      \* loop local
  image,       \* loop local
  onchain,     \* loop local, with the flag "called"
  cgData,      \* loop local, with the flag "called"
  results,     \* handleBatch local, the returned list
  trail,       \* history: per pushed record, what each source gave and the merged fields
  log          \* history: adapter invocations and network calls, in order

vars == << cache, now, pc, addresses, chainInput, chainSlug, normalized, llamaData,
           idx, tokenInfo, name, symbol, image, onchain, cgData, results, trail, log >>

batchVars == << addresses, chainInput, chainSlug, normalized >>
loopVars == << tokenInfo, name, symbol, image, onchain, cgData >>

(* ------------------------------- cache -------------------------------- *)
\* new LRUCache({ max: 5000, ttl: 1000 * 60 * 60 }); the time to live is
\* counted in units of half an hour
CacheMax == 5000
TTL == 2

IsStale(e, t) == t - e.start > TTL

CacheIndex(c, key) ==
  IF \E i \in DOMAIN c : c[i].key = key
  THEN CHOOSE i \in DOMAIN c : c[i].key = key
  ELSE 0

Without(c, i) == SubSeq(c, 1, i - 1) \o SubSeq(c, i + 1, Len(c))

\* cache.has without the test of the entry's age
CacheHasIgnoringAge(c, t, key) == CacheIndex(c, key) # 0

\* cache.has(key): an expired entry is reported absent; recency is not touched
CacheHas(c, t, key) ==
  CacheIndex(c, key) # 0 /\ ~IsStale(c[CacheIndex(c, key)], t)

\* cache.get(key) of a key that has() reported: the stored value
CacheGet(c, key) == c[CacheIndex(c, key)].value

\* the cache after get(key): the entry becomes the most recently used
CacheTouch(c, key) ==
  LET i == CacheIndex(c, key) IN << c[i] >> \o Without(c, i)

\* cache.set(key, value): replaces an entry of the key, evicts the least
\* recently used entry when full, and restarts the entry's age
CacheSet(c, t, key, value) ==
  LET i == CacheIndex(c, key)
      e == [key |-> key, value |-> value, start |-> t]
  IN IF i # 0 THEN << e >> \o Without(c, i)
     ELSE IF Len(c) >= CacheMax THEN << e >> \o SubSeq(c, 1, Len(c) - 1)
     ELSE << e >> \o c

(* ------------------------------ adapters ------------------------------ *)
Colon == <<":">>
Comma == <<",">>

\* `${v}` of a value that is not a string: the text of an object (a function
\* has another text, as little a chain slug as this one)
ObjectText == <<"[","o","b","j","e","c","t"," ","O","b","j","e","c","t","]">>
TemplateStr(v) == IF v = NaS THEN ObjectText ELSE v

\* `${chainSlug}:${addr}`
CoinKey(slug, addr) == TemplateStr(slug) \o Colon \o addr

LlamaKey(slug, addrs) ==
  <<"l","l","a","m","a">> \o Colon \o TemplateStr(slug) \o Colon \o Join(addrs, Comma)

CgKey(sym) == <<"c","g">> \o Colon \o toLowerCase(sym)

OnChainKey(addr) == <<"o","n","c","h","a","i","n">> \o Colon \o toLowerCase(addr)

EmptyInfo == [name |-> Null, symbol |-> Null, logo |-> Null, logo_url |-> Null]

\* { coins: {} }
EmptyLlama == [isNull |-> FALSE, coinsNull |-> FALSE, coins |-> {}]

\* llamaData.coins?.[key] || {}
CoinLookup(data, key) ==
  IF data.coinsNull THEN EmptyInfo
  ELSE IF \E e \in data.coins : e.k = key
       THEN (CHOOSE e \in data.coins : e.k = key).v
       ELSE EmptyInfo

NotCalled == [called |-> FALSE, isNull |-> TRUE, id |-> Null, name |-> Null,
              symbol |-> Null, image |-> Null]

OnChainResult(n, s) == [name |-> n, symbol |-> s]

\* fetchFromCoinGeckoBySymbol after res.json(): the cached result record,
\* or [isNull |-> TRUE] for null (data null, no coins, or a TypeError caught)
CgFind(coins, sym) ==
  IF \E i \in DOMAIN coins :
        Truthy(coins[i].symbol) /\ toLowerCase(coins[i].symbol) = toLowerCase(sym)
  THEN coins[CHOOSE i \in DOMAIN coins :
        /\ Truthy(coins[i].symbol) /\ toLowerCase(coins[i].symbol) = toLowerCase(sym)
        /\ \A j \in 1..(i - 1) :
             ~(Truthy(coins[j].symbol) /\ toLowerCase(coins[j].symbol) = toLowerCase(sym))]
  ELSE coins[1]

CgNull == [isNull |-> TRUE, id |-> Null, symbol |-> Null, name |-> Null, image |-> Null]

CgResult(data, sym) ==
  IF data.isNull \/ data.coins = <<>> THEN CgNull
  ELSE LET match == CgFind(data.coins, sym)
       IN [isNull |-> FALSE,
           id |-> match.id,
           symbol |-> IF Truthy(match.symbol) THEN toLowerCase(match.symbol) ELSE Null,
           name |-> match.name,
           image |-> Or(Or(match.large, match.thumb), Null)]

(* ------------------------------ handleBatch --------------------------- *)
\* a log entry: batch p, loop position i (0 outside the loop), source src, and
\* ev: "invoke" (the adapter is called), "hit" (served from the cache), "net"
\* (a network call is issued), "ok" / "fail" (the upstream gave a usable
\* answer / did not), "throw" (the contract could not be constructed) and
\* "return" (the bulk adapter has settled)
Event(p, i, src, ev, key) == [p |-> p, i |-> i, src |-> src, ev |-> ev, key |-> key]

Init ==
  /\ cache = <<>>
  /\ now = 0
  /\ pc = [p \in Procs |-> "idle"]
  /\ addresses = [p \in Procs |-> <<>>]
  /\ chainInput = [p \in Procs |-> Null]
  /\ chainSlug = [p \in Procs |-> Null]
  /\ normalized = [p \in Procs |-> <<>>]
  /\ llamaData = [p \in Procs |-> EmptyLlama]
  /\ idx = [p \in Procs |-> 1]
  /\ tokenInfo = [p \in Procs |-> EmptyInfo]
  /\ name = [p \in Procs |-> Null]
  /\ symbol = [p \in Procs |-> Null]
  /\ image = [p \in Procs |-> Null]
  /\ onchain = [p \in Procs |-> NotCalled]
  /\ cgData = [p \in Procs |-> NotCalled]
  /\ results = [p \in Procs |-> <<>>]
  /\ trail = [p \in Procs |-> <<>>]
  /\ log = <<>>

\* Start without the await: on a cache miss the bulk call is issued and the
\* loop is entered at once
StartNoAwait(p, addrs, chainIn) ==
  LET slug == resolveChainSlug(chainIn)
      norm == [i \in DOMAIN addrs |-> toLowerCase(addrs[i])]
      key == LlamaKey(slug, norm)
  IN /\ pc[p] = "idle"
     /\ addresses' = [addresses EXCEPT ![p] = addrs]
     /\ chainInput' = [chainInput EXCEPT ![p] = chainIn]
     /\ chainSlug' = [chainSlug EXCEPT ![p] = slug]
     /\ normalized' = [normalized EXCEPT ![p] = norm]
     /\ IF CacheHas(cache, now, key)
        THEN /\ llamaData' = [llamaData EXCEPT ![p] = CacheGet(cache, key)]
             /\ cache' = CacheTouch(cache, key)
             /\ log' = log \o << Event(p, 0, "llama", "invoke", key),
                                 Event(p, 0, "llama", "hit", key),
                                 Event(p, 0, "llama", "return", key) >>
        ELSE /\ log' = log \o << Event(p, 0, "llama", "invoke", key),
                                 Event(p, 0, "llama", "net", key) >>
             /\ UNCHANGED << llamaData, cache >>
     /\ pc' = [pc EXCEPT ![p] = "seed"]
     /\ UNCHANGED << now, idx, results, trail >>
     /\ UNCHANGED loopVars

\* lines 151-158 up to the await: resolveChainSlug, the lower-cased list and
\* fetchFromDefiLlama's cache lookup
Start(p, addrs, chainIn) ==
  LET slug == resolveChainSlug(chainIn)
      norm == [i \in DOMAIN addrs |-> toLowerCase(addrs[i])]
      key == LlamaKey(slug, norm)
  IN /\ pc[p] = "idle"
     /\ addresses' = [addresses EXCEPT ![p] = addrs]
     /\ chainInput' = [chainInput EXCEPT ![p] = chainIn]
     /\ chainSlug' = [chainSlug EXCEPT ![p] = slug]
     /\ normalized' = [normalized EXCEPT ![p] = norm]
     /\ IF CacheHas(cache, now, key)
        THEN /\ llamaData' = [llamaData EXCEPT ![p] = CacheGet(cache, key)]
             /\ cache' = CacheTouch(cache, key)
             /\ pc' = [pc EXCEPT ![p] = "seed"]
             /\ log' = log \o << Event(p, 0, "llama", "invoke", key),
                                 Event(p, 0, "llama", "hit", key),
                                 Event(p, 0, "llama", "return", key) >>
        ELSE /\ pc' = [pc EXCEPT ![p] = "llama_wait"]
             /\ log' = log \o << Event(p, 0, "llama", "invoke", key),
                                 Event(p, 0, "llama", "net", key) >>
             /\ UNCHANGED << llamaData, cache >>
     /\ UNCHANGED << now, idx, results, trail >>
     /\ UNCHANGED loopVars

\* LlamaResponse without cache.set
LlamaResponseNoSet(p, kind, json) ==
  LET key == LlamaKey(chainSlug[p], normalized[p])
  IN /\ pc[p] = "llama_wait"
     /\ IF kind = "ok"
        THEN /\ llamaData' = [llamaData EXCEPT ![p] = json]
             /\ log' = log \o << Event(p, 0, "llama", "ok", key),
                                 Event(p, 0, "llama", "return", key) >>
        ELSE /\ llamaData' = [llamaData EXCEPT ![p] = EmptyLlama]
             /\ log' = log \o << Event(p, 0, "llama", "fail", key),
                                 Event(p, 0, "llama", "return", key) >>
     /\ pc' = [pc EXCEPT ![p] = "seed"]
     /\ UNCHANGED << cache, now, idx, results, trail >>
     /\ UNCHANGED batchVars
     /\ UNCHANGED loopVars

\* lines 61-65 and 158-161: the bulk call settles.  kind is "reject" (fetch
\* rejects), "notok" (res.ok false), "badjson" (res.json() rejects) or "ok"
\* with the parsed body json
LlamaResponse(p, kind, json) ==
  LET key == LlamaKey(chainSlug[p], normalized[p])
  IN /\ pc[p] = "llama_wait"
     /\ IF kind = "ok"
        THEN /\ cache' = CacheSet(cache, now, key, json)
             /\ llamaData' = [llamaData EXCEPT ![p] = json]
             /\ log' = log \o << Event(p, 0, "llama", "ok", key),
                                 Event(p, 0, "llama", "return", key) >>
        ELSE /\ llamaData' = [llamaData EXCEPT ![p] = EmptyLlama]
             /\ log' = log \o << Event(p, 0, "llama", "fail", key),
                                 Event(p, 0, "llama", "return", key) >>
             /\ UNCHANGED cache
     /\ pc' = [pc EXCEPT ![p] = "seed"]
     /\ UNCHANGED << now, idx, results, trail >>
     /\ UNCHANGED batchVars
     /\ UNCHANGED loopVars

\* lines 163-167 (the loop head and the seeding from the bulk record) and
\* line 185 (the return, when the list is exhausted)
Seed(p) ==
  /\ pc[p] = "seed"
  /\ IF idx[p] > Len(normalized[p])
     THEN /\ pc' = [pc EXCEPT ![p] = "done"]
          /\ UNCHANGED loopVars
     ELSE IF llamaData[p].isNull
     THEN /\ pc' = [pc EXCEPT ![p] = "failed"]
          /\ UNCHANGED loopVars
     ELSE LET info == CoinLookup(llamaData[p], CoinKey(chainSlug[p], normalized[p][idx[p]]))
          IN /\ tokenInfo' = [tokenInfo EXCEPT ![p] = info]
             /\ name' = [name EXCEPT ![p] = Or(Or(info.name, info.symbol), Null)]
             /\ symbol' = [symbol EXCEPT ![p] = Or(info.symbol, Null)]
             /\ image' = [image EXCEPT ![p] = Or(Or(info.logo, info.logo_url), Null)]
             /\ onchain' = [onchain EXCEPT ![p] = NotCalled]
             /\ cgData' = [cgData EXCEPT ![p] = NotCalled]
             /\ pc' = [pc EXCEPT ![p] = "onchain"]
  /\ UNCHANGED << cache, now, llamaData, idx, results, trail, log >>
  /\ UNCHANGED batchVars

\* MergeOnChain without the tests of !name and !symbol
MergeOnChainOverwrite(p, res) ==
  /\ onchain' = [onchain EXCEPT ![p] =
                   [NotCalled EXCEPT !.called = TRUE, !.isNull = FALSE,
                                     !.name = res.name, !.symbol = res.symbol]]
  /\ name' = [name EXCEPT ![p] = IF Truthy(res.name) THEN res.name ELSE name[p]]
  /\ symbol' = [symbol EXCEPT ![p] = IF Truthy(res.symbol) THEN res.symbol ELSE symbol[p]]

\* lines 171-172
MergeOnChain(p, res) ==
  /\ onchain' = [onchain EXCEPT ![p] =
                   [NotCalled EXCEPT !.called = TRUE, !.isNull = FALSE,
                                     !.name = res.name, !.symbol = res.symbol]]
  /\ name' = [name EXCEPT ![p] =
                IF ~Truthy(name[p]) /\ Truthy(res.name) THEN res.name ELSE name[p]]
  /\ symbol' = [symbol EXCEPT ![p] =
                  IF ~Truthy(symbol[p]) /\ Truthy(res.symbol) THEN res.symbol ELSE symbol[p]]

\* lines 169-170 and 98-101: the test, fetchOnChainNameSymbol's cache lookup
\* and the construction of the contract (ctorThrows: it throws, line 112)
OnChain(p, ctorThrows) ==
  LET addr == normalized[p][idx[p]]
      key == OnChainKey(addr)
  IN /\ pc[p] = "onchain"
     /\ IF ~Truthy(name[p]) \/ ~Truthy(symbol[p])
        THEN IF CacheHas(cache, now, key)
             THEN /\ MergeOnChain(p, CacheGet(cache, key))
                  /\ cache' = CacheTouch(cache, key)
                  /\ pc' = [pc EXCEPT ![p] = "cg"]
                  /\ log' = log \o << Event(p, idx[p], "onchain", "invoke", key),
                                      Event(p, idx[p], "onchain", "hit", key) >>
             ELSE IF ctorThrows
             THEN /\ MergeOnChain(p, OnChainResult(Null, Null))
                  /\ pc' = [pc EXCEPT ![p] = "cg"]
                  /\ log' = log \o << Event(p, idx[p], "onchain", "invoke", key),
                                      Event(p, idx[p], "onchain", "throw", key) >>
                  /\ UNCHANGED cache
             ELSE /\ pc' = [pc EXCEPT ![p] = "onchain_wait"]
                  /\ log' = log \o << Event(p, idx[p], "onchain", "invoke", key),
                                      Event(p, idx[p], "onchain", "net", key) >>
                  /\ UNCHANGED << cache, name, symbol, onchain >>
        ELSE /\ pc' = [pc EXCEPT ![p] = "cg"]
             /\ UNCHANGED << cache, name, symbol, onchain, log >>
     /\ UNCHANGED << now, llamaData, idx, tokenInfo, image, cgData, results, trail >>
     /\ UNCHANGED batchVars

\* lines 102-111 and 171-172: both reads settle; n and s are the values of
\* name() and symbol(), Null for a read that was rejected
OnChainResponse(p, n, s) ==
  LET key == OnChainKey(normalized[p][idx[p]])
      res == OnChainResult(n, s)
  IN /\ pc[p] = "onchain_wait"
     /\ cache' = CacheSet(cache, now, key, res)
     /\ MergeOnChain(p, res)
     /\ pc' = [pc EXCEPT ![p] = "cg"]
     /\ log' = Append(log, Event(p, idx[p], "onchain",
                                 IF Truthy(n) \/ Truthy(s) THEN "ok" ELSE "fail", key))
     /\ UNCHANGED << now, llamaData, idx, tokenInfo, image, cgData, results, trail >>
     /\ UNCHANGED batchVars

\* MergeCg without the test of !name
MergeCgOverwrite(p, res) ==
  /\ cgData' = [cgData EXCEPT ![p] =
                  [called |-> TRUE, isNull |-> res.isNull, id |-> res.id,
                   name |-> res.name, symbol |-> res.symbol, image |-> res.image]]
  /\ image' = [image EXCEPT ![p] =
                 IF ~res.isNull /\ Truthy(res.image) THEN res.image ELSE image[p]]
  /\ name' = [name EXCEPT ![p] =
                IF ~res.isNull /\ Truthy(res.name) THEN res.name ELSE name[p]]

\* lines 178-179
MergeCg(p, res) ==
  /\ cgData' = [cgData EXCEPT ![p] =
                  [called |-> TRUE, isNull |-> res.isNull, id |-> res.id,
                   name |-> res.name, symbol |-> res.symbol, image |-> res.image]]
  /\ image' = [image EXCEPT ![p] =
                 IF ~res.isNull /\ Truthy(res.image) THEN res.image ELSE image[p]]
  /\ name' = [name EXCEPT ![p] =
                IF ~Truthy(name[p]) /\ ~res.isNull /\ Truthy(res.name)
                THEN res.name ELSE name[p]]

\* lines 176-177 and 70-72: the test and fetchFromCoinGeckoBySymbol's cache
\* lookup; a symbol that is not a string makes toLowerCase throw inside the try
Cg(p) ==
  /\ pc[p] = "cg"
  /\ IF ~Truthy(image[p]) /\ Truthy(symbol[p])
     THEN IF ~IsString(symbol[p])
          THEN /\ MergeCg(p, CgNull)
               /\ pc' = [pc EXCEPT ![p] = "push"]
               /\ log' = Append(log, Event(p, idx[p], "cg", "invoke", Null))
               /\ UNCHANGED cache
          ELSE IF CacheHas(cache, now, CgKey(symbol[p]))
          THEN /\ MergeCg(p, CacheGet(cache, CgKey(symbol[p])))
               /\ cache' = CacheTouch(cache, CgKey(symbol[p]))
               /\ pc' = [pc EXCEPT ![p] = "push"]
               /\ log' = log \o << Event(p, idx[p], "cg", "invoke", CgKey(symbol[p])),
                                   Event(p, idx[p], "cg", "hit", CgKey(symbol[p])) >>
          ELSE /\ pc' = [pc EXCEPT ![p] = "cg_wait"]
               /\ log' = log \o << Event(p, idx[p], "cg", "invoke", CgKey(symbol[p])),
                                   Event(p, idx[p], "cg", "net", CgKey(symbol[p])) >>
               /\ UNCHANGED << cache, name, image, cgData >>
     ELSE /\ pc' = [pc EXCEPT ![p] = "push"]
          /\ UNCHANGED << cache, name, image, cgData, log >>
  /\ UNCHANGED << now, llamaData, idx, tokenInfo, symbol, onchain, results, trail >>
  /\ UNCHANGED batchVars

\* lines 75-93 and 178-179: the search call settles; kind as for the bulk
\* call, data the parsed body
CgResponse(p, kind, data) ==
  LET key == CgKey(symbol[p])
      res == IF kind = "ok" THEN CgResult(data, symbol[p]) ELSE CgNull
  IN /\ pc[p] = "cg_wait"
     /\ IF res.isNull
        THEN /\ log' = Append(log, Event(p, idx[p], "cg", "fail", key))
             /\ UNCHANGED cache
        ELSE /\ cache' = CacheSet(cache, now, key, res)
             /\ log' = Append(log, Event(p, idx[p], "cg", "ok", key))
     /\ MergeCg(p, res)
     /\ pc' = [pc EXCEPT ![p] = "push"]
     /\ UNCHANGED << now, llamaData, idx, tokenInfo, symbol, onchain, results, trail >>
     /\ UNCHANGED batchVars

\* line 182: the record is formatted and pushed, or formatTokenOutput throws
Push(p) ==
  LET out == formatTokenOutput(name[p], symbol[p], image[p], normalized[p][idx[p]])
  IN /\ pc[p] = "push"
     /\ IF out.ok
        THEN /\ results' = [results EXCEPT ![p] = Append(@, out.val)]
             /\ trail' = [trail EXCEPT ![p] =
                            Append(@, [tokenInfo |-> tokenInfo[p], onchain |-> onchain[p],
                                       cgData |-> cgData[p], name |-> name[p],
                                       symbol |-> symbol[p], image |-> image[p]])]
             /\ idx' = [idx EXCEPT ![p] = @ + 1]
             /\ pc' = [pc EXCEPT ![p] = "seed"]
        ELSE /\ pc' = [pc EXCEPT ![p] = "failed"]
             /\ UNCHANGED << results, trail, idx >>
     /\ UNCHANGED << cache, now, llamaData, log >>
     /\ UNCHANGED batchVars
     /\ UNCHANGED loopVars

\* time passes
Tick ==
  /\ now' = now + 1
  /\ UNCHANGED << cache, pc, llamaData, idx, results, trail, log >>
  /\ UNCHANGED batchVars
  /\ UNCHANGED loopVars

(* ------------------------- inputs and upstreams ----------------------- *)
\* longest address list of a batch
MaxLen == 2
\* latest clock value
MaxNow == 3

AddrLower == <<"0","x","a","b">>
AddrChecksummed == <<"0","x","A","b">>
AddrBadChecksum == <<"0","x","a","B">>
AddrOther == <<"0","x","c","d">>
NotAnAddress == <<"N","o","t">>
\* the address parameter of the single-address route is not split at commas
AddrWithComma == AddrLower \o <<",">> \o AddrOther

AddressLists ==
  { l \in { <<>>, << AddrBadChecksum >>, << NotAnAddress >>,
            << AddrChecksummed, AddrLower >>, << AddrLower, AddrOther >>,
            << AddrOther, AddrLower, AddrOther >> } : Len(l) <= MaxLen }

ChainInputs == { Null, <<>>, <<"1","3","7">>, <<"P","o","l","y","g","o","n">>,
                 <<"9","9","9","9","9","9">>,
                 <<"c","o","n","s","t","r","u","c","t","o","r">> }

\* what the upstreams can answer
BulkName == <<"A"," "," ","b">>
BulkSymbol == <<"u","S">>
BulkLogo == <<"L">>
ChainName == <<"O","n">>
ChainSymbol == <<"W"," ","e">>
SearchName == <<"C"," ","g">>
OtherName == <<"X">>
SearchLarge == <<"G">>
SearchThumb == <<"T">>

TokenInfos ==
  { EmptyInfo,
    [EmptyInfo EXCEPT !.symbol = BulkSymbol],
    [EmptyInfo EXCEPT !.name = BulkName],
    [EmptyInfo EXCEPT !.name = BulkName, !.symbol = BulkSymbol, !.logo = BulkLogo],
    [EmptyInfo EXCEPT !.symbol = BulkSymbol, !.logo_url = BulkLogo],
    [EmptyInfo EXCEPT !.symbol = NaS] }

\* the bodies the bulk upstream can send for the coins asked, with records
\* drawn from infos
LlamaBodiesOf(p, infos) ==
  LET asked == { CoinKey(chainSlug[p], normalized[p][i]) : i \in DOMAIN normalized[p] }
  IN { [isNull |-> TRUE, coinsNull |-> TRUE, coins |-> {}],
       [isNull |-> FALSE, coinsNull |-> TRUE, coins |-> {}] }
     \cup { [isNull |-> FALSE, coinsNull |-> FALSE,
             coins |-> { [k |-> q, v |-> f[q]] : q \in asked }] :
            f \in [asked -> infos] }

LlamaBodies(p) == LlamaBodiesOf(p, TokenInfos)

Kinds == { "reject", "notok", "badjson", "ok" }

ChainNames == { Null, ChainName }
ChainSymbols == { Null, ChainSymbol }

Coin(sym, nm, large, thumb) ==
  [id |-> <<"i","d">>, symbol |-> sym, name |-> nm, large |-> large, thumb |-> thumb]

\* the bodies the search upstream can send for a symbol
CgBodies(sym) ==
  { [isNull |-> TRUE, coins |-> <<>>],
    [isNull |-> FALSE, coins |-> <<>>],
    [isNull |-> FALSE, coins |-> << Coin(toUpperCase(sym), SearchName, SearchLarge, Null) >>],
    [isNull |-> FALSE, coins |-> << Coin(<<"z">>, OtherName, SearchLarge, Null),
                                    Coin(sym, Null, Null, SearchThumb) >>],
    [isNull |-> FALSE, coins |-> << Coin(<<"z">>, OtherName, Null, Null) >>],
    [isNull |-> FALSE, coins |-> << Coin(sym, NaS, Null, Null) >>] }

(* --------------------------- specifications --------------------------- *)
\* the steps of batch p
Step(p) ==
  \/ \E addrs \in AddressLists, c \in ChainInputs : Start(p, addrs, c)
  \/ \E kind \in Kinds, json \in LlamaBodies(p) : LlamaResponse(p, kind, json)
  \/ Seed(p)
  \/ \E ctorThrows \in BOOLEAN : OnChain(p, ctorThrows)
  \/ \E n \in ChainNames, s \in ChainSymbols : OnChainResponse(p, n, s)
  \/ Cg(p)
  \/ \E kind \in Kinds, data \in CgBodies(symbol[p]) : CgResponse(p, kind, data)
  \/ Push(p)

\* one batch, on a cold cache
Next == Step(1)

Spec == Init /\ [][Next]_vars

\* the narrower inputs and answers of the behaviours with two batches
TwiceLists ==
  { << AddrChecksummed >>, << AddrWithComma >>,
    << AddrLower, AddrOther >>, << AddrOther, AddrLower >> }

TwiceChains == { Null, <<"1","3","7">> }

TwiceInfos == { EmptyInfo, [EmptyInfo EXCEPT !.symbol = BulkSymbol] }

TwiceLlamaBodies(p) ==
  { b \in LlamaBodiesOf(p, TwiceInfos) : b.isNull \/ ~b.coinsNull }

TwiceReads == { << Null, Null >>, << ChainName, ChainSymbol >> }

TwiceCgBodies(sym) ==
  { [isNull |-> FALSE, coins |-> <<>>],
    [isNull |-> FALSE, coins |-> << Coin(toUpperCase(sym), SearchName, SearchLarge, Null) >>] }

TwiceStep(p) ==
  \/ \E addrs \in TwiceLists, c \in TwiceChains : Start(p, addrs, c)
  \/ \E kind \in {"notok", "ok"}, json \in TwiceLlamaBodies(p) :
       LlamaResponse(p, kind, json)
  \/ Seed(p)
  \/ \E ctorThrows \in BOOLEAN : OnChain(p, ctorThrows)
  \/ \E r \in TwiceReads : OnChainResponse(p, r[1], r[2])
  \/ Cg(p)
  \/ \E kind \in {"notok", "ok"}, data \in TwiceCgBodies(symbol[p]) : CgResponse(p, kind, data)
  \/ Push(p)

\* handleBatch has returned ("done") or thrown ("failed")
Terminated(p) == pc[p] \in {"done", "failed"}

\* two batches in succession on the shared cache; time passes between them
NextTwice ==
  \/ TwiceStep(1)
  \/ Terminated(1) /\ TwiceStep(2)
  \/ Terminated(1) /\ pc[2] = "idle" /\ now < MaxNow /\ Tick

SpecTwice == Init /\ [][NextTwice]_vars

\* upstreams that answer each request the same way every time: what the bulk
\* upstream knows of a coin, what the contract at an address answers, and what
\* the search finds for a symbol
UpInfo(slug, addr) ==
  IF addr = AddrLower /\ slug = ethereum THEN [EmptyInfo EXCEPT !.symbol = BulkSymbol]
  ELSE IF addr = AddrLower
  THEN [EmptyInfo EXCEPT !.name = BulkName, !.symbol = BulkSymbol, !.logo = BulkLogo]
  ELSE EmptyInfo

UpLlama(slug, addrs) ==
  [isNull |-> FALSE, coinsNull |-> FALSE,
   coins |-> { [k |-> CoinKey(slug, addrs[i]), v |-> UpInfo(slug, addrs[i])] :
               i \in { j \in DOMAIN addrs : UpInfo(slug, addrs[j]) # EmptyInfo } }]

\* the bulk upstream refuses one request, every time
UpLlamaKind(slug, addrs) ==
  IF slug = polygon /\ addrs = << AddrOther >> THEN "notok" ELSE "ok"

UpChain(addr) ==
  IF addr = AddrLower THEN OnChainResult(ChainName, ChainSymbol)
  ELSE IF addr = AddrOther THEN OnChainResult(Null, BulkSymbol)
  ELSE OnChainResult(Null, Null)

UpCg(sym) ==
  IF toLowerCase(sym) = toLowerCase(BulkSymbol)
  THEN [isNull |-> FALSE, coins |-> << Coin(toUpperCase(sym), SearchName, SearchLarge, Null) >>]
  ELSE [isNull |-> FALSE, coins |-> <<>>]

ConcLists == { << AddrWithComma >>, << AddrOther >>, << AddrLower, AddrOther >> }

ConcChains == { Null, <<"1","3","7">> }

ConcStep(p) ==
  \/ \E addrs \in ConcLists, c \in ConcChains : Start(p, addrs, c)
  \/ LlamaResponse(p, UpLlamaKind(chainSlug[p], normalized[p]),
                      UpLlama(chainSlug[p], normalized[p]))
  \/ Seed(p)
  \/ OnChain(p, FALSE)
  \/ /\ pc[p] = "onchain_wait"
     /\ OnChainResponse(p, UpChain(normalized[p][idx[p]]).name,
                            UpChain(normalized[p][idx[p]]).symbol)
  \/ Cg(p)
  \/ CgResponse(p, "ok", UpCg(symbol[p]))
  \/ Push(p)

\* two batches that run concurrently on the shared cache: handleBatch
\* suspends at each await and the other batch may run in between
NextConc == \E p \in Procs : ConcStep(p)

SpecConc == Init /\ [][NextConc]_vars

(* ------------------------------- claims ------------------------------- *)
\* the normalized form of an address string: the checksummed address when the
\* string is a hex address in any casing, else the string lower-cased
NormalForm(a) ==
  LET l == toLowerCase(a)
  IN IF IsHexAddress(l)
     THEN getChecksumAddress(IF HasPrefix(l) THEN l ELSE Prefix0x \o l)
     ELSE l

\* C1: every run of handleBatch returns a list of exactly |L| records whose
\* i-th record carries the normalized form of the i-th input address,
\* whatever the sources returned
C1_OneRecordPerAddress ==
  \A p \in Procs :
    Terminated(p) =>
      /\ pc[p] = "done"
      /\ Len(results[p]) = Len(addresses[p])
      /\ \A i \in DOMAIN results[p] :
           results[p][i].contractAddress = NormalForm(addresses[p][i])

\* C2: no failure or malformed payload of an adapter escapes handleBatch:
\* a batch never ends in the error that the route turns into a 500
C2_NoFailureEscapes ==
  \A p \in Procs : pc[p] # "failed"

\* trail entry t records an address for which the bulk source gave nothing,
\* the on-chain read gave nothing and the symbol search gave nothing
AllSourcesFailed(t) ==
  /\ \A f \in {"name", "symbol", "logo", "logo_url"} : ~Truthy(t.tokenInfo[f])
  /\ ~Truthy(t.onchain.name) /\ ~Truthy(t.onchain.symbol)
  /\ t.cgData.isNull

InResolution(p) == pc[p] \in {"onchain", "onchain_wait", "cg", "cg_wait", "push"}

\* C5: during the resolution of one address, a field (name, symbol, image)
\* that holds a non-null value is not changed by any later step
C5_FirstSourceWins ==
  [][ \A p \in Procs :
        InResolution(p) =>
          /\ name[p] # Null => name'[p] = name[p]
          /\ symbol[p] # Null => symbol'[p] = symbol[p]
          /\ image[p] # Null => image'[p] = image[p] ]_vars

\* C5 witness: the bulk source gave the name, the on-chain read offered another
\* name and the symbol search a third one, and the bulk name is still in place
C5_Witness ==
  /\ pc[1] = "push"
  /\ name[1] = BulkName
  /\ onchain[1].called /\ onchain[1].name = ChainName /\ symbol[1] = ChainSymbol
  /\ cgData[1].called /\ cgData[1].name = SearchName /\ image[1] = SearchLarge

\* C6: once the on-chain step of an address is over: if the bulk record lacked
\* a name or a symbol, the on-chain source was queried and each field the bulk
\* record lacked holds the on-chain value when the read gave one; if the bulk
\* record had both, the on-chain source was not queried
C6_OnChainFillsBulkGaps ==
  \A p \in Procs :
    (pc[p] = "cg" /\ tokenInfo[p].symbol # NaS) =>
      LET lacksName == ~Truthy(tokenInfo[p].name)
          lacksSymbol == ~Truthy(tokenInfo[p].symbol)
      IN /\ (lacksName \/ lacksSymbol) =>
              /\ onchain[p].called
              /\ (lacksName /\ Truthy(onchain[p].name)) => name[p] = onchain[p].name
              /\ (lacksSymbol /\ Truthy(onchain[p].symbol)) => symbol[p] = onchain[p].symbol
         /\ (~lacksName /\ ~lacksSymbol) => ~onchain[p].called

\* the step appends an invocation of source src by batch p to the log
Invokes(p, src) ==
  \E k \in (Len(log) + 1)..Len(log') :
    log'[k].p = p /\ log'[k].src = src /\ log'[k].ev = "invoke"

C8_IdAsClaimed ==
  \A p \in Procs : \A i \in DOMAIN results[p] :
    LET t == trail[p][i]
    IN results[p][i].id =
         IF t.name # Null THEN ReplaceWs(toLowerCase(t.name))
         ELSE IF t.symbol # Null THEN toLowerCase(t.symbol)
         ELSE toLowerCase(addresses[p][i])

\* C8 (amended): id is a function of the merged (name, symbol, address) only:
\* the lower-case hyphenated name if a name is present, else the lower-case
\* hyphenated form of the default name (the symbol lower-cased, then
\* upper-cased) if a symbol is present, else the lower-cased address
C8_IdOfMergedFields ==
  \A p \in Procs : \A i \in DOMAIN results[p] :
    LET t == trail[p][i]
    IN results[p][i].id =
         IF t.name # Null THEN ReplaceWs(toLowerCase(t.name))
         ELSE IF t.symbol # Null
              THEN ReplaceWs(toLowerCase(toUpperCase(toLowerCase(t.symbol))))
         ELSE toLowerCase(addresses[p][i])

\* C8 witness: a batch whose first record has no name and a symbol that
\* contains whitespace, and whose second record has neither name nor symbol
C8_Witness ==
  /\ pc[1] = "done" /\ Len(results[1]) = 2
  /\ trail[1][1].name = Null /\ trail[1][1].symbol = ChainSymbol
  /\ results[1][1].id = <<"w", "-", "e">>
  /\ trail[1][2].name = Null /\ trail[1][2].symbol = Null
  /\ results[1][2].id = toLowerCase(addresses[1][2])

\* the name of the first source, in the order bulk, on-chain, symbol search,
\* that supplied one for trail entry t; Null when none did
SuppliedName(t) ==
  IF Truthy(t.tokenInfo.name) THEN t.tokenInfo.name
  ELSE IF t.onchain.called /\ Truthy(t.onchain.name) THEN t.onchain.name
  ELSE IF t.cgData.called /\ ~t.cgData.isNull /\ Truthy(t.cgData.name) THEN t.cgData.name
  ELSE Null

\* C9: in a returned record, when no source supplied a name but a source
\* supplied a symbol, name is that symbol upper-cased; when a source supplied
\* a name, name is that source's name
C9_NameDefault ==
  \A p \in Procs : \A i \in DOMAIN results[p] :
    LET t == trail[p][i]
    IN IF SuppliedName(t) # Null THEN results[p][i].name = SuppliedName(t)
       ELSE t.symbol # Null => results[p][i].name = toUpperCase(t.symbol)

\* the positions of the log at which batch p did ev on source src
Events(p, src, ev) ==
  { k \in DOMAIN log : log[k].p = p /\ log[k].src = src /\ log[k].ev = ev }

\* C10: a run invokes the bulk source exactly once, for the whole list, and
\* that invocation has settled before the run's first on-chain or symbol
\* search call
C10_BulkOnceAndFirst ==
  \A p \in Procs :
    /\ Cardinality(Events(p, "llama", "invoke")) = (IF pc[p] = "idle" THEN 0 ELSE 1)
    /\ Cardinality(Events(p, "llama", "net")) <= 1
    /\ \A k \in Events(p, "llama", "invoke") :
         log[k].key = LlamaKey(resolveChainSlug(chainInput[p]),
                               [i \in DOMAIN addresses[p] |-> toLowerCase(addresses[p][i])])
    /\ \A k \in DOMAIN log :
         (log[k].p = p /\ log[k].src \in {"onchain", "cg"}) =>
            \E j \in Events(p, "llama", "return") : j < k

\* C10 witness: a finished batch of two addresses whose bulk call went to the
\* network and was followed by on-chain and symbol-search network calls
C10_Witness ==
  /\ pc[1] = "done" /\ Len(addresses[1]) = 2
  /\ Events(1, "llama", "net") # {}
  /\ Events(1, "onchain", "net") # {}
  /\ Events(1, "cg", "net") # {}

\* both batches are over and the second was given the input of the first
SameBatchTwice ==
  /\ Terminated(1) /\ Terminated(2)
  /\ addresses[2] = addresses[1]
  /\ chainInput[2] = chainInput[1]

\* no entry written since the start has outlived the time to live, and the
\* cache was never full
WithinTTLNoEviction == now <= TTL /\ Len(cache) < CacheMax

\* the keys the adapters were invoked for
SourceKeys ==
  { log[k].key : k \in { j \in DOMAIN log : log[j].ev = "invoke" /\ log[j].key # Null } }

NetCalls(key) ==
  Cardinality({ k \in DOMAIN log : log[k].ev = "net" /\ log[k].key = key })

AllLookupsStored(p) ==
  \A k \in DOMAIN log :
    log[k].p = p =>
      /\ log[k].ev # "throw"
      /\ log[k].ev = "fail" => log[k].src = "onchain"

C11_OneAttemptPerKey ==
  \A p \in Procs : \A j, k \in DOMAIN log :
    ( /\ log[j].p = p /\ log[k].p = p
      /\ log[j].ev = "net" /\ log[k].ev = "net"
      /\ log[j].key = log[k].key ) => j = k

\* lists a and b hold the same addresses, each as many times, in any order
SameAddresses(a, b) ==
  /\ Len(a) = Len(b)
  /\ \A x \in Range(a) \cup Range(b) :
       Cardinality({ i \in DOMAIN a : a[i] = x }) = Cardinality({ i \in DOMAIN b : b[i] = x })

\* C12: the bulk cache key does not depend on the order of the addresses:
\* after a batch whose bulk call succeeded, a batch over the same addresses
\* on the same chain, in any order and within the time to live, issues no
\* bulk network call
C12_BulkKeyOrderIndependent ==
  ( /\ pc[1] = "done" /\ pc[2] # "idle"
    /\ Events(1, "llama", "ok") # {}
    /\ chainSlug[2] = chainSlug[1]
    /\ SameAddresses(normalized[1], normalized[2])
    /\ WithinTTLNoEviction )
  => Events(2, "llama", "net") = {}

\* C13: resolveChainSlug never fails and gives "ethereum" for an absent or
\* empty input, the canonical slug for a chain id or alias of the table, and
\* every other input as itself, lower-cased
C13_ResolveChainSlug ==
  \A p \in Procs :
    pc[p] # "idle" =>
      chainSlug[p] =
        IF chainInput[p] \in { Null, <<>> } THEN ethereum
        ELSE IF \E e \in CHAIN_MAP : e[1] = toLowerCase(chainInput[p])
             THEN (CHOOSE e \in CHAIN_MAP : e[1] = toLowerCase(chainInput[p]))[2]
        ELSE toLowerCase(chainInput[p])

\* the log entries the step appends
Appended == { log'[k] : k \in (Len(log) + 1)..Len(log') }

\* the value a cache hit of source src hands to batch p in the step
Delivered(p, src) ==
  IF src = "llama" THEN llamaData'[p]
  ELSE IF src = "onchain" THEN OnChainResult(onchain'[p].name, onchain'[p].symbol)
  ELSE [isNull |-> cgData'[p].isNull, id |-> cgData'[p].id, symbol |-> cgData'[p].symbol,
        name |-> cgData'[p].name, image |-> cgData'[p].image]

\* C14: a lookup that ends as a cache hit hands out the value stored under
\* its key, and that value was stored at most the time to live earlier; a
\* lookup that finds an entry older than the time to live does not hit and
\* goes to the upstream
C14_NoStaleHit ==
  [][ \A e \in Appended :
        /\ e.ev = "hit" =>
             /\ CacheIndex(cache, e.key) # 0
             /\ now - cache[CacheIndex(cache, e.key)].start <= TTL
             /\ Delivered(e.p, e.src) = cache[CacheIndex(cache, e.key)].value
        /\ ( /\ e.ev = "invoke" /\ e.key # Null
             /\ CacheIndex(cache, e.key) # 0
             /\ now - cache[CacheIndex(cache, e.key)].start > TTL )
           => \E f \in Appended : f.key = e.key /\ f.ev \in {"net", "throw"} ]_vars

\* C14 witness: the second batch ran after the entries of the first had
\* expired; its symbol search found the expired entry of the first batch and
\* went to the network, and its next address was served the fresh entry
C14_Witness ==
  /\ now > TTL /\ pc[2] = "done"
  /\ \E j \in Events(1, "cg", "ok"), k \in Events(2, "cg", "net"), h \in Events(2, "cg", "hit") :
       /\ log[j].key = log[k].key /\ log[h].key = log[k].key
       /\ k < h

\* the symbol batch p looked up, or is looking up, for its i-th address
SymbolAt(p, i) == IF i <= Len(trail[p]) THEN trail[p][i].symbol ELSE symbol[p]

\* log entries j and k, of one source, are lookups of the same logical key
SameLookup(j, k) ==
  LET a == log[j]
      b == log[k]
  IN IF a.src = "llama"
     THEN chainSlug[a.p] = chainSlug[b.p] /\ normalized[a.p] = normalized[b.p]
     ELSE IF a.src = "onchain"
     THEN toLowerCase(normalized[a.p][a.i]) = toLowerCase(normalized[b.p][b.i])
     ELSE toLowerCase(SymbolAt(a.p, a.i)) = toLowerCase(SymbolAt(b.p, b.i))

\* C15: two lookups use the same cache key only if they are lookups of the
\* same source for the same logical key (stated for the lookups of batches
\* that did not throw)
C15_KeysCollisionFree ==
  \A j, k \in DOMAIN log :
    ( /\ log[j].ev = "invoke" /\ log[k].ev = "invoke"
      /\ pc[log[j].p] # "failed" /\ pc[log[k].p] # "failed"
      /\ log[j].key # Null /\ log[j].key = log[k].key )
    => log[j].src = log[k].src /\ SameLookup(j, k)

\* C16: the layers are consulted in the order bulk, symbol search, on-chain:
\* for every address, the on-chain source is invoked only after the symbol
\* search of that address was invoked, and the symbol search is never invoked
\* after the on-chain source
C16_OnChainLast ==
  \A k \in DOMAIN log :
    (log[k].src = "onchain" /\ log[k].ev = "invoke") =>
      /\ \E j \in 1..(k - 1) :
           /\ log[j].p = log[k].p /\ log[j].i = log[k].i
           /\ log[j].src = "cg" /\ log[j].ev = "invoke"
      /\ \A j \in (k + 1)..Len(log) :
           ~( /\ log[j].p = log[k].p /\ log[j].i = log[k].i
              /\ log[j].src = "cg" /\ log[j].ev = "invoke" )

\* C18: a step in which an upstream call fails or yields nothing (a bulk call
\* that is rejected, not ok or unparseable; an on-chain read that gives
\* neither name nor symbol; a search that fails or finds no coin) leaves the
\* cache unchanged
C18_WritesOnlyOnSuccess ==
  [][ \A e \in Appended : e.ev = "fail" => cache' = cache ]_vars

\* the positions before h at which the on-chain entry of log[h]'s key was stored
OnChainWrites(h) ==
  { j \in 1..(h - 1) :
      log[j].src = "onchain" /\ log[j].key = log[h].key /\ log[j].ev \in {"ok", "fail"} }

\* C19: an on-chain cache hit while resolving an address on chain C never
\* hands out a name or symbol that was read and stored while resolving that
\* address on another chain
C19_OnChainPerChain ==
  \A h \in DOMAIN log :
    (log[h].src = "onchain" /\ log[h].ev = "hit") =>
      \A j \in OnChainWrites(h) :
        ((\A l \in OnChainWrites(h) : l <= j) /\ log[j].ev = "ok")
          => chainSlug[log[j].p] = chainSlug[log[h].p]

\* the key of the network call batch p is waiting for, Null when it waits
\* for none
InFlightKey(p) ==
  IF pc[p] = "llama_wait" THEN LlamaKey(chainSlug[p], normalized[p])
  ELSE IF pc[p] = "onchain_wait" THEN OnChainKey(normalized[p][idx[p]])
  ELSE IF pc[p] = "cg_wait" THEN CgKey(symbol[p])
  ELSE Null

\* C20: no two concurrent batches have a network call for the same source
\* key in flight at the same time
C20_NoDuplicateInFlight ==
  \A p, q \in Procs :
    (p # q /\ InFlightKey(p) # Null) => InFlightKey(p) # InFlightKey(q)

\* the record handleBatch returns for address a of the list norm on chain
\* slug when it runs alone, on an empty cache, against the upstreams Up*
AloneRecord(slug, norm, a) ==
  LET body == IF UpLlamaKind(slug, norm) = "ok" THEN UpLlama(slug, norm) ELSE EmptyLlama
      info == CoinLookup(body, CoinKey(slug, a))
      name0 == Or(Or(info.name, info.symbol), Null)
      symbol0 == Or(info.symbol, Null)
      image0 == Or(Or(info.logo, info.logo_url), Null)
      read == IF ~Truthy(name0) \/ ~Truthy(symbol0) THEN UpChain(a)
              ELSE OnChainResult(Null, Null)
      name1 == IF ~Truthy(name0) /\ Truthy(read.name) THEN read.name ELSE name0
      symbol1 == IF ~Truthy(symbol0) /\ Truthy(read.symbol) THEN read.symbol ELSE symbol0
      found == IF ~Truthy(image0) /\ Truthy(symbol1) THEN CgResult(UpCg(symbol1), symbol1)
               ELSE CgNull
      image2 == IF ~found.isNull /\ Truthy(found.image) THEN found.image ELSE image0
      name2 == IF ~Truthy(name1) /\ ~found.isNull /\ Truthy(found.name)
               THEN found.name ELSE name1
  IN formatTokenOutput(name2, symbol1, image2, a).val

\* C17: whatever the interleaving of the two batches on the shared cache,
\* with upstreams that answer each request the same way every time, a batch
\* returns the records, in the positions, it returns when it runs alone
C17_IndependentBatches ==
  \A p \in Procs :
    pc[p] = "done" =>
      results[p] = [i \in DOMAIN normalized[p] |->
                      AloneRecord(chainSlug[p], normalized[p], normalized[p][i])]

====
